---- MODULE Spec2Model ----
(***************************************************************************)
(* Model of src/src/draftDbOps.py: tournament-key normalisation and the    *)
(* skip-if-present inserts into the team, game, ban and pick tables.       *)
(*                                                                         *)
(* Strings that the code takes apart with regular expressions (region,     *)
(* season, split, the tournament key) are sequences of tokens: one token   *)
(* per decimal digit, "_" and "/" as themselves, and one token for every   *)
(* maximal run of other characters ("Europe", "Mid-Season").  Champion and *)
(* team names are only compared for equality and are plain strings.        *)
(* A table is the sequence of its rows in insertion order; the id of a row *)
(* is its position (sqlite rowid of a table nothing is deleted from).      *)
(***************************************************************************)
EXTENDS Integers, Sequences, FiniteSets, TLC

VARIABLES team, game, ban, pick, last

vars == <<team, game, ban, pick, last>>

\* ------------------------------------------------------------------ values

\* Python None / SQL NULL in a string-valued place: a marker no string equals.
None == <<"#None">>

\* Python None / SQL NULL in an id-valued place (row ids and champion ids are >= 1).
NullId == 0

\* Python None / SQL NULL in the place of a team name.
NoTeam == "#NoTeam"

\* No exception was raised.
NoExc == "none"

Digits == {"0", "1", "2", "3", "4", "5", "6", "7", "8", "9"}

IsDigit(c) == c \in Digits

\* Calls of insertTeam after which the loop of insertGame is cut off in the model.
MaxLoop == 2

\* Longest batch (list of records) passed to one call.
MaxBatch == 2

\* ------------------------------------------------------------------ regex

\* Length of the run of digits that starts at position i of s (0 when s[i] is no digit).
RECURSIVE DigitRunLen(_, _)
DigitRunLen(s, i) ==
    IF i > Len(s) \/ ~IsDigit(s[i]) THEN 0 ELSE 1 + DigitRunLen(s, i + 1)

\* Position of the first digit of s at or after i, 0 when there is none.
RECURSIVE FirstDigitPos(_, _)
FirstDigitPos(s, i) ==
    IF i > Len(s) THEN 0
    ELSE IF IsDigit(s[i]) THEN i
    ELSE FirstDigitPos(s, i + 1)

\* The run of digits of s that starts at p; None when p = 0 (no digit in s).
DigitRunAt(s, p) ==
    IF p = 0 THEN None ELSE SubSeq(s, p, p + DigitRunLen(s, p) - 1)

\* re.search("([0-9]+)", s): the leftmost, longest run of digits; None when no match.
reSearchDigits(s) == DigitRunAt(s, FirstDigitPos(s, 1))

\* "_?" before the digits: 1 when s[i] is "_" and a digit follows it, else 0.
LeadLen(s, i) ==
    IF i <= Len(s) /\ s[i] = "_" /\ DigitRunLen(s, i + 1) > 0 THEN 1 ELSE 0

\* TailLen with the "_?" after the digits never taking the underscore.
TailLen_None(s, j) == 0

\* "_?" after the digits: 1 when s[j] is "_", else 0.
TailLen(s, j) == IF j <= Len(s) /\ s[j] = "_" THEN 1 ELSE 0

\* The match at i given its leading "_?" and its digits [0-9]+ (greedy).
MatchFrom(s, i, lead, run) ==
    IF run = 0 THEN 0 ELSE lead + run + TailLen(s, i + lead + run)

\* Length of the match of "_?[0-9]+_?" that starts exactly at position i (0: no match).
MatchLenAt(s, i) == MatchFrom(s, i, LeadLen(s, i), DigitRunLen(s, i + LeadLen(s, i)))

\* "".join(re.split("_?[0-9]+_?", s)) from position i on: s with every match,
\* scanned left to right, removed; n is the length of the match at i.
RECURSIVE reSplitJoin(_, _)
reSplitStep(s, i, n) ==
    IF n > 0 THEN reSplitJoin(s, i + n) ELSE <<s[i]>> \o reSplitJoin(s, i + 1)

reSplitJoin(s, i) ==
    IF i > Len(s) THEN <<>> ELSE reSplitStep(s, i, MatchLenAt(s, i))

\* "/".join([a, b])
JoinSlash(a, b) == a \o <<"/">> \o b

\* ------------------------------------------------------------ module tables

regionsDict ==
    (<<"North", "_", "America">> :> <<"NA">>) @@ (<<"Europe">> :> <<"EU">>) @@
    (<<"LCK">> :> <<"LCK">>) @@ (<<"LPL">> :> <<"LPL">>) @@ (<<"LMS">> :> <<"LMS">>)

internationalEventsDict ==
    (<<"Mid-Season", "_", "Invitational">> :> <<"MSI">>) @@
    (<<"Rift", "_", "Rivals">> :> <<"RR">>) @@
    (<<"World", "_", "Championship">> :> <<"WRLDS">>)

\* ------------------------------------------------------- getTournamentData

\* Lines 82-85: the first run of digits of region when season is None, else of
\* season.  None stands for re.search finding no match (.group then raises
\* AttributeError).
TournamentYear(gameData) ==
    IF gameData.season = None
    THEN reSearchDigits(gameData.region)
    ELSE reSearchDigits(gameData.season)

\* internationalEventsDict[event]; None stands for the KeyError of a missing key.
EventCode(event) ==
    IF event \in DOMAIN internationalEventsDict
    THEN internationalEventsDict[event] ELSE None

\* Lines 87-90: the part of the key after the year; None stands for the KeyError.
TournamentBody(gameData) ==
    IF gameData.split = None
    THEN EventCode(reSplitJoin(gameData.region, 1))
    ELSE IF gameData.region \in DOMAIN regionsDict
         THEN JoinSlash(gameData.split, regionsDict[gameData.region]) ELSE None

\* Lines 82-92 given the year and the body; the year is computed first.
TournamentKey(year, body) ==
    IF year = None THEN [exc |-> "AttributeError", val |-> None]
    ELSE IF body = None THEN [exc |-> "KeyError", val |-> None]
    ELSE [exc |-> NoExc, val |-> JoinSlash(year, body)]

\* [exc, val]: the exception raised ("none": returned) and the key returned.
getTournamentData(gameData) ==
    TournamentKey(TournamentYear(gameData), TournamentBody(gameData))

\* -------------------------------------------------------- champion resolver
\* championinfo.py is imported (line 3) but is not part of the sources: the two
\* lookups are modelled from the specification's Champion Resolver interface,
\* resolveByName(name) -> id | notFound, resolveAlias(name) -> canonicalName | notFound,
\* and from the AliasException the module imports beside them.

\* Canonical champion names and their ids.
ChampionIds == ("Annie" :> 1) @@ ("Wukong" :> 62)

\* Known aliases and the canonical names they stand for.
ChampionAliases == ("monkeyking" :> "Wukong")

\* Names for which the alias lookup reports notFound by returning no name.
AliasNotFound == {"Retired"}

\* The name returned by an alias lookup that found nothing.
NoName == "#None"

\* championIdFromName(name): the id, or NullId when the name is not a champion's.
championIdFromName(name) ==
    IF name \in DOMAIN ChampionIds THEN ChampionIds[name] ELSE NullId

\* convertChampionAlias(name): [exc, val]; a name that is neither an alias nor
\* reported notFound makes the lookup raise AliasException.
convertChampionAlias(name) ==
    IF name \in DOMAIN ChampionAliases THEN [exc |-> NoExc, val |-> ChampionAliases[name]]
    ELSE IF name \in AliasNotFound THEN [exc |-> NoExc, val |-> NoName]
    ELSE [exc |-> "AliasException", val |-> NoName]

\* ------------------------------------------------------------------ queries

\* SELECT id FROM team WHERE display_name=? ; fetchone(): first match or None.
\* A NULL parameter matches no row (display_name = NULL is never true).
RECURSIVE SelectTeamFrom(_, _, _)
SelectTeamFrom(teamT, name, i) ==
    IF i > Len(teamT) THEN NullId
    ELSE IF name # NoTeam /\ teamT[i].display_name = name THEN i
    ELSE SelectTeamFrom(teamT, name, i + 1)

SelectTeamId(teamT, name) == SelectTeamFrom(teamT, name, 1)

\* SELECT id FROM game WHERE tournament=? AND tourn_game_id=? ; fetchone().
RECURSIVE SelectGameFrom(_, _, _, _)
SelectGameFrom(gameT, tournament, tournGameId, i) ==
    IF i > Len(gameT) THEN NullId
    ELSE IF gameT[i].tournament = tournament /\ gameT[i].tourn_game_id = tournGameId THEN i
    ELSE SelectGameFrom(gameT, tournament, tournGameId, i + 1)

SelectGameId(gameT, tournament, tournGameId) ==
    SelectGameFrom(gameT, tournament, tournGameId, 1)

\* SELECT game_id FROM ban|pick WHERE game_id=? ; fetchone() is not None.
HasRowsFor(table, gameId) == \E i \in 1..Len(table) : table[i].game_id = gameId

\* ------------------------------------------- getGameIdsByTournament, getMatchData

\* Lines 20-27: SELECT id FROM game WHERE tournament=? ORDER BY id, from row i on.
RECURSIVE GameIdsFrom(_, _, _)
GameIdsFrom(gameT, tournament, i) ==
    IF i > Len(gameT) THEN <<>>
    ELSE IF gameT[i].tournament = tournament
    THEN <<i>> \o GameIdsFrom(gameT, tournament, i + 1)
    ELSE GameIdsFrom(gameT, tournament, i + 1)

\* [db, exc, val]: the store as the call leaves it and the list of ids returned.
getGameIdsByTournament(db, tournament) ==
    [db |-> db, exc |-> NoExc, val |-> GameIdsFrom(db.game, tournament, 1)]

\* ORDER BY selection_order: r put into the ordered list `sorted`.
RECURSIVE InsertSorted(_, _)
InsertSorted(r, sorted) ==
    IF sorted = <<>> THEN <<r>>
    ELSE IF r.selection_order <= Head(sorted).selection_order THEN <<r>> \o sorted
    ELSE <<Head(sorted)>> \o InsertSorted(r, Tail(sorted))

RECURSIVE OrderBySelection(_)
OrderBySelection(rows) ==
    IF rows = <<>> THEN <<>>
    ELSE InsertSorted(Head(rows), OrderBySelection(Tail(rows)))

\* WHERE game_id=? AND side_id=? on ban or pick.
RowsOfSide(table, gameId, side) ==
    SelectSeq(table, LAMBDA r : r.game_id = gameId /\ r.side_id = side)

\* Lines 48-56: SELECT champion_id, selection_order FROM ban WHERE ... ORDER BY ...
SelectBans(banT, gameId, side) ==
    [i \in 1..Len(RowsOfSide(banT, gameId, side)) |->
        <<OrderBySelection(RowsOfSide(banT, gameId, side))[i].champion_id,
          OrderBySelection(RowsOfSide(banT, gameId, side))[i].selection_order>>]

\* Lines 59-67: SELECT champion_id, position_id, selection_order FROM pick ...
SelectPicks(pickT, gameId, side) ==
    [i \in 1..Len(RowsOfSide(pickT, gameId, side)) |->
        <<OrderBySelection(RowsOfSide(pickT, gameId, side))[i].champion_id,
          OrderBySelection(RowsOfSide(pickT, gameId, side))[i].position_id,
          OrderBySelection(RowsOfSide(pickT, gameId, side))[i].selection_order>>]

\* Lines 40-69: [db, exc, val].  Line 45 subscripts fetchone(), which is None
\* when the game table has no row with that id: TypeError.
getMatchData(db, gameId) ==
    IF gameId \notin 1..Len(db.game)
    THEN [db |-> db, exc |-> "TypeError", val |-> None]
    ELSE [db  |-> db, exc |-> NoExc,
          val |-> [winner |-> db.game[gameId].winning_team,
                   blue |-> [bans  |-> SelectBans(db.ban, gameId, 0),
                             picks |-> SelectPicks(db.pick, gameId, 0)],
                   red  |-> [bans  |-> SelectBans(db.ban, gameId, 1),
                             picks |-> SelectPicks(db.pick, gameId, 1)]]]

\* --------------------------------------------------------------- insertTeam

\* insertTeamRow without the SELECT of lines 188-190.
insertTeamRow_NoCheck(teamT, region, name) ==
    Append(teamT, [region |-> region, display_name |-> name])

\* insertTeamRow overwriting the region of a team that is there already.
insertTeamRow_Update(teamT, region, name) ==
    IF SelectTeamId(teamT, name) = NullId
    THEN Append(teamT, [region |-> region, display_name |-> name])
    ELSE [teamT EXCEPT ![SelectTeamId(teamT, name)].region = region]

\* Lines 188-191: insert (region, team) unless a row with that display_name exists.
insertTeamRow(teamT, region, name) ==
    IF SelectTeamId(teamT, name) = NullId
    THEN Append(teamT, [region |-> region, display_name |-> name])
    ELSE teamT

\* Lines 181-184: None when split is None, else regionsDict[region], which
\* raises KeyError for a region that is no key.
teamRegion(g) ==
    IF g.split = None THEN [exc |-> NoExc, val |-> None]
    ELSE IF g.region \in DOMAIN regionsDict
         THEN [exc |-> NoExc, val |-> regionsDict[g.region]]
         ELSE [exc |-> "KeyError", val |-> None]

\* insertTeamsOf with teams = [blue_team] only.
insertTeamsOf_BlueOnly(db, g, region) ==
    IF region.exc # NoExc THEN [db |-> db, exc |-> region.exc]
    ELSE [db  |-> [db EXCEPT !.team = insertTeamRow(db.team, region.val, g.blue_team)],
          exc |-> NoExc]

\* Lines 185-191 given the region: teams = [blue_team, red_team], in that order.
insertTeamsOf(db, g, region) ==
    IF region.exc # NoExc THEN [db |-> db, exc |-> region.exc]
    ELSE [db  |-> [db EXCEPT !.team =
                      insertTeamRow(insertTeamRow(db.team, region.val, g.blue_team),
                                    region.val, g.red_team)],
          exc |-> NoExc]

\* One iteration of the loop of insertTeam (lines 177-191).
insertTeamOne(db, g) == insertTeamsOf(db, g, teamRegion(g))

\* The loop of insertTeam: r is the outcome of the iteration just made, rest
\* the records still to come; an exception ends the call.
RECURSIVE insertTeam(_, _)
insertTeamNext(r, rest) == IF r.exc # NoExc THEN r ELSE insertTeam(r.db, rest)

insertTeam(db, gameData) ==
    IF gameData = <<>> THEN [db |-> db, exc |-> NoExc]
    ELSE insertTeamNext(insertTeamOne(db, Head(gameData)), Tail(gameData))

\* --------------------------------------------------------------- insertGame

\* The while loop of lines 146-156, entered with `attempts` calls of insertTeam
\* already made: [db, exc, blue, red, attempts].  A run that is still without
\* both ids after MaxLoop calls of insertTeam is cut off as "NoTermination".
RECURSIVE resolveTeamIds(_, _, _)
\* Lines 153, 146: r is the outcome of insertTeam(cursor, [game]).
teamIdsRetry(g, attempts, blueTeamId, redTeamId, r) ==
    IF r.exc # NoExc
    THEN [db |-> r.db, exc |-> r.exc, blue |-> blueTeamId, red |-> redTeamId,
          attempts |-> attempts + 1]
    ELSE resolveTeamIds(r.db, g, attempts + 1)

\* teamIdsStep going on with the rows fetched, a missing one included, without
\* the call of insertTeam and the second pass.
teamIdsStep_NoRetry(db, g, attempts, blueTeamId, redTeamId) ==
    [db |-> db, exc |-> NoExc, blue |-> blueTeamId, red |-> redTeamId,
     attempts |-> attempts]

\* Lines 151-156 given the two rows fetched.
teamIdsStep(db, g, attempts, blueTeamId, redTeamId) ==
    IF blueTeamId # NullId /\ redTeamId # NullId
    THEN [db |-> db, exc |-> NoExc, blue |-> blueTeamId, red |-> redTeamId,
          attempts |-> attempts]
    ELSE IF attempts >= MaxLoop
    THEN [db |-> db, exc |-> "NoTermination", blue |-> blueTeamId, red |-> redTeamId,
          attempts |-> attempts]
    ELSE teamIdsRetry(g, attempts, blueTeamId, redTeamId, insertTeam(db, <<g>>))

resolveTeamIds(db, g, attempts) ==
    teamIdsStep(db, g, attempts, SelectTeamId(db.team, g.blue_team),
                SelectTeamId(db.team, g.red_team))

\* Lines 158-160: the row inserted into game.
gameRow(tournamentData, g, blueTeamId, redTeamId) ==
    [tournament |-> tournamentData, tourn_game_id |-> g.tourn_game_id,
     blue_teamid |-> blueTeamId, red_teamid |-> redTeamId,
     winning_team |-> g.winning_team]

\* Lines 158-160 given the outcome t of the loop that resolves the team ids.
insertGameRow(g, tournamentData, t) ==
    IF t.exc # NoExc THEN [db |-> t.db, exc |-> t.exc]
    ELSE [db  |-> [t.db EXCEPT !.game =
                      Append(@, gameRow(tournamentData, g, t.blue, t.red))],
          exc |-> NoExc]

\* insertGameKeyed without the check of lines 138-141 for a row already there.
insertGameKeyed_NoCheck(db, g, td) ==
    IF td.exc # NoExc THEN [db |-> db, exc |-> td.exc]
    ELSE insertGameRow(g, td.val, resolveTeamIds(db, g, 0))

\* insertGameKeyed resolving (and creating) the teams of a record before its
\* key is looked at.
insertGameKeyed_TeamsFirst(db, g, td) ==
    IF td.exc # NoExc THEN [db |-> resolveTeamIds(db, g, 0).db, exc |-> td.exc]
    ELSE IF SelectGameId(db.game, td.val, g.tourn_game_id) # NullId
    THEN [db |-> db, exc |-> NoExc]
    ELSE insertGameRow(g, td.val, resolveTeamIds(db, g, 0))

\* Lines 137-160 given the outcome td of getTournamentData(game).
insertGameKeyed(db, g, td) ==
    IF td.exc # NoExc THEN [db |-> db, exc |-> td.exc]
    ELSE IF SelectGameId(db.game, td.val, g.tourn_game_id) # NullId
    THEN [db |-> db, exc |-> NoExc]
    ELSE insertGameRow(g, td.val, resolveTeamIds(db, g, 0))

\* One iteration of the loop of insertGame (lines 133-160).
insertGameOne(db, g) == insertGameKeyed(db, g, getTournamentData(g))

\* The loop of insertGame; an exception ends the call.
RECURSIVE insertGame(_, _)
insertGameNext(r, rest) == IF r.exc # NoExc THEN r ELSE insertGame(r.db, rest)

insertGame(db, gameData) ==
    IF gameData = <<>> THEN [db |-> db, exc |-> NoExc]
    ELSE insertGameNext(insertGameOne(db, Head(gameData)), Tail(gameData))

\* ---------------------------------------------------------------- getGameId

\* Line 114, reached when the game is not in the table: insertGame(cursor,[game])
\* names `game`, which is neither a local of getGameId nor a global of the
\* module, so evaluating the argument raises NameError before insertGame runs.
getGameIdRecover(db, gameData) ==
    [db |-> db, exc |-> "NameError", gameId |-> NullId]

\* Lines 111-117 given the row fetched.
getGameIdFound(db, gameData, gameId) ==
    IF gameId = NullId THEN getGameIdRecover(db, gameData)
    ELSE [db |-> db, exc |-> NoExc, gameId |-> gameId]

\* Lines 107-117 given the outcome td of getTournamentData(gameData).
getGameIdKeyed(db, gameData, td) ==
    IF td.exc # NoExc THEN [db |-> db, exc |-> td.exc, gameId |-> NullId]
    ELSE getGameIdFound(db, gameData,
                        SelectGameId(db.game, td.val, gameData.tourn_game_id))

\* Lines 106-117: [db, exc, gameId].
getGameId(db, gameData) == getGameIdKeyed(db, gameData, getTournamentData(gameData))

\* ------------------------------------------------------ insertBan, insertPick

\* Line 231 (276): championIdFromName(convertChampionAlias(name)), alias being
\* the outcome of convertChampionAlias(name).
resolveAlias(alias) ==
    IF alias.exc # NoExc THEN [exc |-> alias.exc, val |-> NullId, alias |-> TRUE]
    ELSE [exc |-> NoExc, val |-> championIdFromName(alias.val), alias |-> TRUE]

\* resolveNamed without the fallback of lines 230-231.
resolveNamed_NoAlias(name, id) == [exc |-> NoExc, val |-> id, alias |-> FALSE]

\* Lines 228-231 (272-276), id being championIdFromName(name).
resolveNamed(name, id) ==
    IF id # NullId THEN [exc |-> NoExc, val |-> id, alias |-> FALSE]
    ELSE resolveAlias(convertChampionAlias(name))

\* Lines 224-231 (267-276): the champion id of one entry, [exc, val, alias];
\* alias tells whether convertChampionAlias was called.
resolveChampion(name) ==
    IF name = "none" THEN [exc |-> NoExc, val |-> NullId, alias |-> FALSE]
    ELSE resolveNamed(name, championIdFromName(name))

\* teams = ["blue", "red"]; side k is teams[k], k = 0, 1.
teams == <<"blue", "red">>

\* Lines 232-233: the ban row of an entry.
banRow(gameId, banId, selectionOrder, side) ==
    [game_id |-> gameId, champion_id |-> banId, selection_order |-> selectionOrder,
     side_id |-> side]

\* Lines 277-278: the pick row of an entry.
pickRow(gameId, pickId, position, selectionOrder, side) ==
    [game_id |-> gameId, champion_id |-> pickId, position_id |-> position,
     selection_order |-> selectionOrder, side_id |-> side]

\* Lines 223-234: the entries of one side from entry number i on, selectionOrder
\* being the count so far; a raise leaves the rows inserted before it.
RECURSIVE writeBans(_, _, _, _, _, _)
\* writeBan with "none" entries taking no selection_order of their own.
writeBan_NoneNoSlot(banT, gameId, side, bans, i, selectionOrder, c) ==
    IF c.exc # NoExc THEN [table |-> banT, exc |-> c.exc]
    ELSE IF bans[i] = "none"
    THEN writeBans(Append(banT, banRow(gameId, c.val, selectionOrder, side)),
                   gameId, side, bans, i + 1, selectionOrder)
    ELSE writeBans(Append(banT, banRow(gameId, c.val, selectionOrder + 1, side)),
                   gameId, side, bans, i + 1, selectionOrder + 1)

\* Lines 232-234 for entry i, c being the outcome of resolving its champion.
writeBan(banT, gameId, side, bans, i, selectionOrder, c) ==
    IF c.exc # NoExc THEN [table |-> banT, exc |-> c.exc]
    ELSE writeBans(Append(banT, banRow(gameId, c.val, selectionOrder + 1, side)),
                   gameId, side, bans, i + 1, selectionOrder + 1)

writeBans(banT, gameId, side, bans, i, selectionOrder) ==
    IF i > Len(bans) THEN [table |-> banT, exc |-> NoExc]
    ELSE writeBan(banT, gameId, side, bans, i, selectionOrder, resolveChampion(bans[i]))

\* Lines 266-279, as writeBans; an entry is (pick, position).
RECURSIVE writePicks(_, _, _, _, _, _)
writePick(pickT, gameId, side, picks, i, selectionOrder, c) ==
    IF c.exc # NoExc THEN [table |-> pickT, exc |-> c.exc]
    ELSE writePicks(Append(pickT, pickRow(gameId, c.val, picks[i][2],
                                          selectionOrder + 1, side)),
                    gameId, side, picks, i + 1, selectionOrder + 1)

writePicks(pickT, gameId, side, picks, i, selectionOrder) ==
    IF i > Len(picks) THEN [table |-> pickT, exc |-> NoExc]
    ELSE writePick(pickT, gameId, side, picks, i, selectionOrder,
                   resolveChampion(picks[i][1]))

\* Lines 219-234: for k in range(len(teams)), selectionOrder restarting at 0;
\* r is the outcome of the side just written.
RECURSIVE writeBanSides(_, _, _, _)
writeBanSidesNext(gameId, g, k, r) ==
    IF r.exc # NoExc THEN r ELSE writeBanSides(r.table, gameId, g, k + 1)

writeBanSides(banT, gameId, g, k) ==
    IF k >= Len(teams) THEN [table |-> banT, exc |-> NoExc]
    ELSE writeBanSidesNext(gameId, g, k,
                           writeBans(banT, gameId, k, g.bans[teams[k + 1]], 1, 0))

\* Lines 262-279.
RECURSIVE writePickSides(_, _, _, _)
writePickSidesNext(gameId, g, k, r) ==
    IF r.exc # NoExc THEN r ELSE writePickSides(r.table, gameId, g, k + 1)

writePickSides(pickT, gameId, g, k) ==
    IF k >= Len(teams) THEN [table |-> pickT, exc |-> NoExc]
    ELSE writePickSidesNext(gameId, g, k,
                            writePicks(pickT, gameId, k, g.picks[teams[k + 1]], 1, 0))

\* The store and the outcome after the rows of one game were written (w).
insertBanRows(db, w) == [db |-> [db EXCEPT !.ban = w.table], exc |-> w.exc]

insertPickRows(db, w) == [db |-> [db EXCEPT !.pick = w.table], exc |-> w.exc]

\* insertBanFor without the check of lines 214-217 for rows already there.
insertBanFor_NoCheck(g, gi) ==
    IF gi.exc # NoExc THEN [db |-> gi.db, exc |-> gi.exc]
    ELSE insertBanRows(gi.db, writeBanSides(gi.db.ban, gi.gameId, g, 0))

\* insertBanFor looking for the rows of the game in pick instead of ban.
insertBanFor_PickCheck(g, gi) ==
    IF gi.exc # NoExc THEN [db |-> gi.db, exc |-> gi.exc]
    ELSE IF HasRowsFor(gi.db.pick, gi.gameId) THEN [db |-> gi.db, exc |-> NoExc]
    ELSE insertBanRows(gi.db, writeBanSides(gi.db.ban, gi.gameId, g, 0))

\* Lines 213-234 given the outcome gi of getGameId(cursor, game).
insertBanFor(g, gi) ==
    IF gi.exc # NoExc THEN [db |-> gi.db, exc |-> gi.exc]
    ELSE IF HasRowsFor(gi.db.ban, gi.gameId) THEN [db |-> gi.db, exc |-> NoExc]
    ELSE insertBanRows(gi.db, writeBanSides(gi.db.ban, gi.gameId, g, 0))

\* Lines 210-234 given the outcome td of getTournamentData(game).
insertBanKeyed(db, g, td) ==
    IF td.exc # NoExc THEN [db |-> db, exc |-> td.exc]
    ELSE insertBanFor(g, getGameId(db, g))

\* One iteration of the loop of insertBan (lines 210-234).
insertBanOne(db, g) == insertBanKeyed(db, g, getTournamentData(g))

\* The loop of insertBan; an exception ends the call.
RECURSIVE insertBan(_, _)
insertBanNext(r, rest) == IF r.exc # NoExc THEN r ELSE insertBan(r.db, rest)

insertBan(db, gameData) ==
    IF gameData = <<>> THEN [db |-> db, exc |-> NoExc]
    ELSE insertBanNext(insertBanOne(db, Head(gameData)), Tail(gameData))

\* Lines 256-279 given the outcome gi of getGameId(cursor, game).
insertPickFor(g, gi) ==
    IF gi.exc # NoExc THEN [db |-> gi.db, exc |-> gi.exc]
    ELSE IF HasRowsFor(gi.db.pick, gi.gameId) THEN [db |-> gi.db, exc |-> NoExc]
    ELSE insertPickRows(gi.db, writePickSides(gi.db.pick, gi.gameId, g, 0))

\* Lines 253-279 given the outcome td of getTournamentData(game).
insertPickKeyed(db, g, td) ==
    IF td.exc # NoExc THEN [db |-> db, exc |-> td.exc]
    ELSE insertPickFor(g, getGameId(db, g))

\* One iteration of the loop of insertPick (lines 253-279).
insertPickOne(db, g) == insertPickKeyed(db, g, getTournamentData(g))

\* The loop of insertPick; an exception ends the call.
RECURSIVE insertPick(_, _)
insertPickNext(r, rest) == IF r.exc # NoExc THEN r ELSE insertPick(r.db, rest)

insertPick(db, gameData) ==
    IF gameData = <<>> THEN [db |-> db, exc |-> NoExc]
    ELSE insertPickNext(insertPickOne(db, Head(gameData)), Tail(gameData))

\* ------------------------------------------------------------------ inputs

Year2017 == <<"2", "0", "1", "7">>
Year2019 == <<"2", "0", "1", "9">>

\* (region, season, split) as the records carry them.
SrcEU ==
    [region |-> <<"Europe">>, season |-> Year2017 \o <<"_", "Season">>,
     split |-> <<"Summer">>]

SrcEUYear ==
    [region |-> Year2017 \o <<"_", "Europe">>, season |-> None, split |-> <<"Summer">>]

SrcMSI ==
    [region |-> Year2019 \o <<"_", "Mid-Season", "_", "Invitational">>,
     season |-> None, split |-> None]

\* winning_team, bans and picks.  "monkeyking" resolves through its alias only,
\* "Retired" resolves to nothing, the alias lookup of "Typo" raises.
DraftAlias ==
    [winning_team |-> 0,
     bans  |-> [blue |-> <<"Annie", "monkeyking", "none">>, red |-> <<"monkeyking">>],
     picks |-> [blue |-> <<<<"monkeyking", 1>>>>,
                red  |-> <<<<"none", 2>>, <<"Annie", 3>>>>]]

DraftRaise ==
    [winning_team |-> 1,
     bans  |-> [blue |-> <<"Annie", "Typo", "Annie">>, red |-> <<"Annie">>],
     picks |-> [blue |-> <<<<"Annie", 1>>>>, red |-> <<<<"Typo", 2>>>>]]

DraftRetired ==
    [winning_team |-> 1,
     bans  |-> [blue |-> <<"Retired">>, red |-> <<"none", "Annie">>],
     picks |-> [blue |-> <<>>, red |-> <<>>]]

\* A record as queryWiki() produces it.
Rec(src, n, blue, red, d) ==
    [region |-> src.region, season |-> src.season, split |-> src.split,
     tourn_game_id |-> n, blue_team |-> blue, red_team |-> red,
     winning_team |-> d.winning_team, bans |-> d.bans, picks |-> d.picks]

\* The records the operations are called with: two records of the same game
\* (the second with one team on both sides), an international event with a
\* team the first record names too, and a record whose region carries the year.
Records ==
    { Rec(SrcEU, 1, "G2", "FNC", DraftAlias),
      Rec(SrcEU, 1, "FNC", "FNC", DraftRetired),
      Rec(SrcMSI, 1, "SKT", "G2", DraftRaise),
      Rec(SrcEUYear, 1, "G2", "H2K", DraftAlias) }

\* The lists of 1..MaxBatch records.
Batches == UNION { [1..n -> Records] : n \in 1..MaxBatch }

\* ------------------------------------------------------------ state machine

\* The store as the operations see it through the cursor.
Db == [team |-> team, game |-> game, ban |-> ban, pick |-> pick]

Init ==
    /\ team = <<>>
    /\ game = <<>>
    /\ ban = <<>>
    /\ pick = <<>>
    /\ last = [op |-> "none", exc |-> NoExc,
               added |-> [team |-> 0, game |-> 0, ban |-> 0, pick |-> 0]]

\* The call returned or raised: the store is as the call left it.  last keeps
\* the operation, the exception it ended with and the INSERTs it executed.
Finish(op, r) ==
    /\ team' = r.db.team
    /\ game' = r.db.game
    /\ ban' = r.db.ban
    /\ pick' = r.db.pick
    /\ last' = [op |-> op, exc |-> r.exc,
                added |-> [team |-> Len(r.db.team) - Len(team),
                           game |-> Len(r.db.game) - Len(game),
                           ban  |-> Len(r.db.ban) - Len(ban),
                           pick |-> Len(r.db.pick) - Len(pick)]]

InsertTeam ==
    \E gameData \in Batches : \E r \in {insertTeam(Db, gameData)} :
        Finish("insertTeam", r)

InsertGame ==
    \E gameData \in Batches : \E r \in {insertGame(Db, gameData)} :
        Finish("insertGame", r)

InsertBan ==
    \E gameData \in Batches : \E r \in {insertBan(Db, gameData)} :
        Finish("insertBan", r)

InsertPick ==
    \E gameData \in Batches : \E r \in {insertPick(Db, gameData)} :
        Finish("insertPick", r)

GetGameId ==
    \E gameData \in Records : \E r \in {getGameId(Db, gameData)} :
        Finish("getGameId", r)

\* The tournament strings the reads are called with: the keys of the records
\* and one no record has.
Tournaments ==
    { getTournamentData(g).val : g \in {h \in Records : getTournamentData(h).exc = NoExc} }
        \cup {Year2017 \o <<"/", "RR">>}

GetGameIdsByTournament ==
    \E tournament \in Tournaments : \E r \in {getGameIdsByTournament(Db, tournament)} :
        Finish("getGameIdsByTournament", r)

\* Called with the id of a game in the table or with the next id, not yet used.
GetMatchData ==
    \E gameId \in 1..(Len(game) + 1) : \E r \in {getMatchData(Db, gameId)} :
        Finish("getMatchData", r)

Next ==
    \/ InsertTeam \/ InsertGame \/ InsertBan \/ InsertPick \/ GetGameId
    \/ GetGameIdsByTournament \/ GetMatchData

Spec == Init /\ [][Next]_vars

\* ------------------------------------------- getTournamentData on its own

\* Region and event names: the keys of the two dictionaries and one that is
\* a key of neither.
NormNames ==
    (DOMAIN regionsDict) \cup (DOMAIN internationalEventsDict) \cup {<<"Brazil">>}

NormYears == {Year2017, Year2019}

\* region: a name alone, or with the year before or after it.
NormRegions ==
    NormNames
        \cup {y \o <<"_">> \o n : y \in NormYears, n \in NormNames}
        \cup {n \o <<"_">> \o y : y \in NormYears, n \in NormNames}

\* season: absent, with one run of digits, with two, with none.
NormSeasons ==
    { None, Year2017 \o <<"_", "Season">>, <<"Season", "_">> \o Year2019 \o <<"_", "3">>,
      <<"Season">> }

NormSplits == {None, <<"Summer">>}

\* The fields of a record that getTournamentData reads.
NormInputs ==
    { [region |-> r, season |-> se, split |-> sp] :
          r \in NormRegions, se \in NormSeasons, sp \in NormSplits }

\* An input is drawn; last holds it until getTournamentData is applied to it.
NormInit ==
    /\ team = <<>>
    /\ game = <<>>
    /\ ban = <<>>
    /\ pick = <<>>
    /\ \E gameData \in NormInputs :
          last = [op |-> "input", arg |-> gameData, exc |-> NoExc, val |-> None]

NormDraw ==
    /\ last.op = "getTournamentData"
    /\ \E gameData \in NormInputs :
          last' = [op |-> "input", arg |-> gameData, exc |-> NoExc, val |-> None]
    /\ UNCHANGED <<team, game, ban, pick>>

NormApply ==
    /\ last.op = "input"
    /\ \E r \in {getTournamentData(last.arg)} :
          last' = [op |-> "getTournamentData", arg |-> last.arg, exc |-> r.exc,
                   val |-> r.val]
    /\ UNCHANGED <<team, game, ban, pick>>

NormNext == NormDraw \/ NormApply

SpecNorm == NormInit /\ [][NormNext]_vars

\* ------------------------------------------------------------------ claims

\* The id a lookup by the record's (tournament, tourn_game_id) yields in gameT
\* (NullId: no row, or no key).
LookupGame(gameT, g) ==
    LET td == getTournamentData(g)
    IN  IF td.exc # NoExc THEN NullId ELSE SelectGameId(gameT, td.val, g.tourn_game_id)

\* C1 as stated, for the records that have a key: from any store state, two
\* calls of insertGame with the same record perform exactly one INSERT into
\* game in total, the second call inserts nothing and succeeds, and the lookup
\* yields the same id after both.
C1_ExactlyOneInsert ==
    \A g \in Records :
        LET a == insertGame(Db, <<g>>)
            b == insertGame(a.db, <<g>>)
        IN  getTournamentData(g).exc = NoExc =>
            /\ Len(b.db.game) - Len(game) = 1
            /\ b.db.game = a.db.game
            /\ b.exc = NoExc
            /\ LookupGame(a.db.game, g) # NullId
            /\ LookupGame(b.db.game, g) = LookupGame(a.db.game, g)

\* C1 amended: the second of two calls of insertGame with the same record
\* changes no table and ends as the first did; together they perform exactly
\* one INSERT into game when the record has a key and no row with that key
\* was there before the first call, and none otherwise; after a first call
\* that succeeded the lookup yields the same game id after both calls.
C1_SecondCallNoOp ==
    \A g \in Records :
        LET a == insertGame(Db, <<g>>)
            b == insertGame(a.db, <<g>>)
            fresh == getTournamentData(g).exc = NoExc /\ LookupGame(game, g) = NullId
        IN  /\ b.db = a.db
            /\ b.exc = a.exc
            /\ Len(b.db.game) - Len(game) = IF fresh THEN 1 ELSE 0
            /\ a.exc = NoExc =>
                  /\ LookupGame(a.db.game, g) # NullId
                  /\ LookupGame(b.db.game, g) = LookupGame(a.db.game, g)

\* A call of insertGame returned having found its games in the table already.
C1_Witness ==
    /\ last.op = "insertGame"
    /\ last.exc = NoExc
    /\ last.added.game = 0
    /\ \E g \in Records : LookupGame(game, g) # NullId

\* The rows a call appended to a table.
NewRows(old, new) == SubSeq(new, Len(old) + 1, Len(new))

\* C2: a second call of insertBan with the same record, after a first call
\* that wrote at least one ban row, inserts no ban row and leaves the ban
\* table (and every other table) unchanged; likewise insertPick and pick.
C2_SecondWriteNoOp ==
    \A g \in Records :
        LET a == insertBan(Db, <<g>>)
            b == insertBan(a.db, <<g>>)
            c == insertPick(Db, <<g>>)
            d == insertPick(c.db, <<g>>)
        IN  /\ Len(a.db.ban) > Len(ban) => b.db = a.db
            /\ Len(c.db.pick) > Len(pick) => d.db = c.db

\* A call of insertBan returned without writing: the bans of its games were there.
C2_Witness ==
    /\ last.op = "insertBan"
    /\ last.exc = NoExc
    /\ last.added.ban = 0
    /\ Len(ban) > 0

\* C3: the game table holds at most one row for each (tournament, tourn_game_id).
C3_GameKeyUnique ==
    \A i, j \in 1..Len(game) :
        (game[i].tournament = game[j].tournament
            /\ game[i].tourn_game_id = game[j].tourn_game_id) => i = j

\* Both games are in the table and a call of insertGame for games that are
\* there returned without adding a row.
C3_Witness ==
    /\ last.op = "insertGame"
    /\ last.exc = NoExc
    /\ last.added.game = 0
    /\ Len(game) = 2
    /\ game[1].tournament # game[2].tournament

\* No two rows of the team table have the same display_name.
TeamNamesUnique(teamT) ==
    \A i, j \in 1..Len(teamT) : teamT[i].display_name = teamT[j].display_name => i = j

\* C4: the team table holds at most one row per display_name, and the row
\* insertGame inserts for a record references, on each side, the row of the
\* team the record names on that side (so records that name the same team,
\* or one record that names it on both sides, reference the same team id).
C4_TeamUnique ==
    /\ TeamNamesUnique(team)
    /\ \A g \in Records :
          LET a == insertGame(Db, <<g>>)
              rows == NewRows(game, a.db.game)
          IN  /\ TeamNamesUnique(a.db.team)
              /\ \A k \in 1..Len(rows) :
                    /\ rows[k].blue_teamid \in 1..Len(a.db.team)
                    /\ rows[k].red_teamid \in 1..Len(a.db.team)
                    /\ a.db.team[rows[k].blue_teamid].display_name = g.blue_team
                    /\ a.db.team[rows[k].red_teamid].display_name = g.red_team

\* Two games are in the table and reference one team row between them.
C4_Witness ==
    /\ last.op = "insertGame"
    /\ Len(game) = 2
    /\ {game[1].blue_teamid, game[1].red_teamid}
          \cap {game[2].blue_teamid, game[2].red_teamid} # {}

\* The ban entries of a record in the order they are to be written: blue's,
\* then red's, each with its side and its 1-based place within its side.
BanEntries(g) ==
    [i \in 1..(Len(g.bans.blue) + Len(g.bans.red)) |->
        IF i <= Len(g.bans.blue)
        THEN [name |-> g.bans.blue[i], side |-> 0, order |-> i]
        ELSE [name |-> g.bans.red[i - Len(g.bans.blue)], side |-> 1,
              order |-> i - Len(g.bans.blue)]]

\* The pick entries of a record, likewise.
PickEntries(g) ==
    [i \in 1..(Len(g.picks.blue) + Len(g.picks.red)) |->
        IF i <= Len(g.picks.blue)
        THEN [name |-> g.picks.blue[i][1], side |-> 0, order |-> i]
        ELSE [name |-> g.picks.red[i - Len(g.picks.blue)][1], side |-> 1,
              order |-> i - Len(g.picks.blue)]]

\* rows are the rows of the first Len(rows) of the entries e, written for game
\* gid: side, selection_order, and a null champion for a "none" entry.
RowsFollow(rows, e, gid) ==
    /\ Len(rows) <= Len(e)
    /\ \A i \in 1..Len(rows) :
          /\ rows[i].game_id = gid
          /\ rows[i].side_id = e[i].side
          /\ rows[i].selection_order = e[i].order
          /\ e[i].name = "none" => rows[i].champion_id = NullId

\* C5: the rows insertBan (insertPick) writes for a record are the rows of its
\* entries, blue's (side_id 0) before red's (side_id 1), with selection_order
\* 1..n within each side in the order of the entries, a "none" entry taking
\* its slot with a null champion_id; a call that writes and returns has
\* written a row for every entry.
C5_SelectionOrder ==
    \A g \in Records :
        LET a == insertBan(Db, <<g>>)
            b == insertPick(Db, <<g>>)
            banRows == NewRows(ban, a.db.ban)
            pickRows == NewRows(pick, b.db.pick)
        IN  /\ RowsFollow(banRows, BanEntries(g), LookupGame(game, g))
            /\ (a.exc = NoExc /\ banRows # <<>>) => Len(banRows) = Len(BanEntries(g))
            /\ RowsFollow(pickRows, PickEntries(g), LookupGame(game, g))
            /\ (b.exc = NoExc /\ pickRows # <<>>) => Len(pickRows) = Len(PickEntries(g))

\* A call of insertBan returned having written a game whose third blue ban is
\* "none": the row has selection_order 3 and no champion.
C5_Witness ==
    /\ last.op = "insertBan"
    /\ last.exc = NoExc
    /\ last.added.ban > 0
    /\ \E i \in 1..Len(ban) :
          ban[i].side_id = 0 /\ ban[i].selection_order = 3 /\ ban[i].champion_id = NullId

\* The name is not a champion's, and its alias is.
AliasOnly(name) ==
    /\ name # "none"
    /\ championIdFromName(name) = NullId
    /\ convertChampionAlias(name).exc = NoExc
    /\ championIdFromName(convertChampionAlias(name).val) # NullId

\* The rows written for alias-only entries carry the id of the alias.
AliasRows(rows, e) ==
    \A i \in 1..Len(rows) :
        AliasOnly(e[i].name) =>
            /\ i <= Len(e)
            /\ rows[i].champion_id # NullId
            /\ rows[i].champion_id = championIdFromName(convertChampionAlias(e[i].name).val)

\* C6: the row of a ban or pick entry whose name is found only through its
\* alias carries the alias-resolved champion id; convertChampionAlias is called
\* only for a name championIdFromName did not find, never for "none".
C6_AliasFallback ==
    \A g \in Records :
        LET banRows == NewRows(ban, insertBan(Db, <<g>>).db.ban)
            pickRows == NewRows(pick, insertPick(Db, <<g>>).db.pick)
        IN  /\ AliasRows(banRows, BanEntries(g))
            /\ AliasRows(pickRows, PickEntries(g))
            /\ \A i \in 1..Len(BanEntries(g)) :
                  resolveChampion(BanEntries(g)[i].name).alias =>
                      /\ BanEntries(g)[i].name # "none"
                      /\ championIdFromName(BanEntries(g)[i].name) = NullId
            /\ \A i \in 1..Len(PickEntries(g)) :
                  resolveChampion(PickEntries(g)[i].name).alias =>
                      /\ PickEntries(g)[i].name # "none"
                      /\ championIdFromName(PickEntries(g)[i].name) = NullId

\* A call of insertBan wrote the row of "monkeyking" with the id of Wukong.
C6_Witness ==
    /\ last.op = "insertBan"
    /\ last.added.ban > 0
    /\ \E i \in 1..Len(ban) :
          ban[i].champion_id = ChampionIds[ChampionAliases["monkeyking"]]

\* C7: for a record with a key whose game is not in the table, getGameId
\* creates the game and returns the id of the new row, which matches the
\* record's (tournament, tourn_game_id); insertBan and insertPick, which call
\* it, do not fail for the want of the game.
C7_GetGameIdCreates ==
    \A g \in Records :
        (getTournamentData(g).exc = NoExc /\ LookupGame(game, g) = NullId) =>
            LET r == getGameId(Db, g)
            IN  /\ r.exc = NoExc
                /\ r.gameId # NullId
                /\ r.gameId = LookupGame(r.db.game, g)
                /\ Len(r.db.game) = Len(game) + 1
                /\ insertBan(Db, <<g>>).exc # "NameError"
                /\ insertPick(Db, <<g>>).exc # "NameError"

\* The rows of a table that belong to game gid.
RowsOf(table, gid) == SelectSeq(table, LAMBDA r : r.game_id = gid)

\* rows are a row for every entry of e, in order.
CompleteSet(rows, e, gid) == Len(rows) = Len(e) /\ RowsFollow(rows, e, gid)

\* C8: after every call, a game has either no ban (pick) row or a row for every
\* ban (pick) entry of a record of that game.
C8_NoPartialSet ==
    \A gid \in 1..Len(game) :
        /\ \/ RowsOf(ban, gid) = <<>>
           \/ \E g \in Records :
                 LookupGame(game, g) = gid /\ CompleteSet(RowsOf(ban, gid), BanEntries(g), gid)
        /\ \/ RowsOf(pick, gid) = <<>>
           \/ \E g \in Records :
                 LookupGame(game, g) = gid /\ CompleteSet(RowsOf(pick, gid), PickEntries(g), gid)

\* C9: a record that fails normalisation does not keep the records after it
\* in the batch from being processed: the tables end as the call with the
\* later record alone leaves them.
C9_BatchContinues ==
    \A g1, g2 \in Records :
        (getTournamentData(g1).exc # NoExc /\ getTournamentData(g2).exc = NoExc) =>
            /\ insertTeam(Db, <<g1, g2>>).db = insertTeam(Db, <<g2>>).db
            /\ insertGame(Db, <<g1, g2>>).db = insertGame(Db, <<g2>>).db
            /\ insertBan(Db, <<g1, g2>>).db = insertBan(Db, <<g2>>).db
            /\ insertPick(Db, <<g1, g2>>).db = insertPick(Db, <<g2>>).db

\* The year the seasons of NormSeasons name first.
SeasonYear ==
    (Year2017 \o <<"_", "Season">> :> Year2017)
        @@ (<<"Season", "_">> \o Year2019 \o <<"_", "3">> :> Year2019)

\* C10: with split present and season absent getTournamentData takes the year
\* from the digits in region and returns year/split/abbreviation(region)
\* ("2017_Europe", "Summer" gives "2017/Summer/EU"); with season present the
\* year of the key is the first run of digits of season.
C10_YearFromRegion ==
    last.op = "getTournamentData" =>
        /\ \A y \in NormYears, n \in DOMAIN regionsDict :
              (/\ last.arg.split # None
               /\ last.arg.season = None
               /\ last.arg.region \in {y \o <<"_">> \o n, n \o <<"_">> \o y}) =>
                  /\ last.exc = NoExc
                  /\ last.val = JoinSlash(y, JoinSlash(last.arg.split, regionsDict[n]))
        /\ (last.arg.season \in DOMAIN SeasonYear /\ last.exc = NoExc) =>
              SubSeq(last.val, 1, Len(SeasonYear[last.arg.season]) + 1)
                  = SeasonYear[last.arg.season] \o <<"/">>

\* The three forms of region in NormRegions that carry the name n: alone, with
\* the year y before it, with the year y after it.
RegionForms(y, n) == {n, y \o <<"_">> \o n, n \o <<"_">> \o y}

\* The year the key is to carry for (region, season) when region carries the
\* year y: the first run of digits of season when season has one, y when
\* season is absent; None when neither gives a year.
ExpectedYear(arg, y, n) ==
    IF arg.season \in DOMAIN SeasonYear THEN SeasonYear[arg.season]
    ELSE IF arg.season = None /\ arg.region # n THEN y
    ELSE None

\* C11: with split absent getTournamentData strips the year digits and the
\* underscores beside them from region, maps the event name that remains
\* through internationalEventsDict and returns year/code
\* ("2019_Mid-Season_Invitational" gives "2019/MSI"); an input whose region
\* name (split present) or event name (split absent) is a key of neither
\* enumerated set fails and returns no key; and the outcome is a function of
\* (region, season, split) alone.
C11_EventKey ==
    last.op = "getTournamentData" =>
        /\ \A y \in NormYears, n \in NormNames :
              (last.arg.region \in RegionForms(y, n)) =>
                  /\ (/\ last.arg.split = None
                      /\ n \in DOMAIN internationalEventsDict
                      /\ ExpectedYear(last.arg, y, n) # None) =>
                         /\ last.exc = NoExc
                         /\ last.val = JoinSlash(ExpectedYear(last.arg, y, n),
                                                 internationalEventsDict[n])
                  /\ (last.arg.split = None /\ n \notin DOMAIN internationalEventsDict) =>
                         last.exc # NoExc /\ last.val = None
                  /\ (last.arg.split # None /\ n \notin DOMAIN regionsDict) =>
                         last.exc # NoExc /\ last.val = None
        /\ \A g \in Records :
              (/\ g.region = last.arg.region
               /\ g.season = last.arg.season
               /\ g.split = last.arg.split) =>
                  getTournamentData(g) = [exc |-> last.exc, val |-> last.val]

\* getTournamentData returned "2019/MSI" for region "2019_Mid-Season_Invitational"
\* with season and split absent.
C11_Witness ==
    /\ last.op = "getTournamentData"
    /\ last.arg = SrcMSI
    /\ last.exc = NoExc
    /\ last.val = Year2019 \o <<"/", "MSI">>

\* A record whose blue_team is None.
RecNoTeam == Rec(SrcEU, 1, NoTeam, "FNC", DraftAlias)

\* C12: the loop of insertGame that resolves the team ids makes at most one
\* call of insertTeam for a record and then either holds both ids or stops with
\* an error, and the loop of getGameId makes at most one call of insertGame and
\* then either holds the game id or stops with an error; neither runs on.
C12_LoopsTerminate ==
    \A g \in Records \cup {RecNoTeam} :
        getTournamentData(g).exc = NoExc =>
            LET t == resolveTeamIds(Db, g, 0)
                r == getGameId(Db, g)
            IN  /\ t.attempts <= 1
                /\ t.exc # "NoTermination"
                /\ t.exc = NoExc => (t.blue # NullId /\ t.red # NullId)
                /\ Len(r.db.game) - Len(game) <= 1
                /\ r.exc = NoExc => r.gameId # NullId

\* The name is a champion's neither directly nor through its alias.
Unresolved(name) ==
    /\ name # "none"
    /\ championIdFromName(name) = NullId
    /\ \/ convertChampionAlias(name).exc # NoExc
       \/ championIdFromName(convertChampionAlias(name).val) = NullId

\* rows hold a row for every entry of e, those of unresolved names with a null
\* champion_id.
WrittenWithNulls(rows, e, gid) ==
    /\ CompleteSet(rows, e, gid)
    /\ \A i \in 1..Len(e) : Unresolved(e[i].name) => rows[i].champion_id = NullId

\* C13: a ban or pick entry whose name is found neither directly nor through
\* its alias does not end the call: for a game that is in the table and has
\* no ban (pick) rows yet, the call returns having written a row for every
\* entry of both sides with its selection_order, the row of the unresolved
\* entry with a null champion_id.
C13_UnresolvedNotFatal ==
    \A g \in Records :
        LET gid == LookupGame(game, g)
            a == insertBan(Db, <<g>>)
            b == insertPick(Db, <<g>>)
        IN  /\ (/\ gid # NullId
                /\ ~HasRowsFor(ban, gid)
                /\ \E i \in 1..Len(BanEntries(g)) : Unresolved(BanEntries(g)[i].name)) =>
                   /\ a.exc = NoExc
                   /\ WrittenWithNulls(NewRows(ban, a.db.ban), BanEntries(g), gid)
            /\ (/\ gid # NullId
                /\ ~HasRowsFor(pick, gid)
                /\ \E i \in 1..Len(PickEntries(g)) : Unresolved(PickEntries(g)[i].name)) =>
                   /\ b.exc = NoExc
                   /\ WrittenWithNulls(NewRows(pick, b.db.pick), PickEntries(g), gid)

\* Records whose region (split present) or event (split absent) is in neither
\* enumerated set.
RecUnknownRegion ==
    Rec([region |-> <<"Brazil">>, season |-> Year2017 \o <<"_", "Season">>,
         split |-> <<"Summer">>], 1, "PNG", "G2", DraftAlias)

RecUnknownEvent ==
    Rec([region |-> Year2019 \o <<"_", "All-Star">>, season |-> None, split |-> None],
        1, "PNG", "G2", DraftAlias)

\* The region of the record is no key of regionsDict (split present), or what
\* is left of it without the year is no key of internationalEventsDict.
UnknownName(g) ==
    IF g.split = None
    THEN reSplitJoin(g.region, 1) \notin DOMAIN internationalEventsDict
    ELSE g.region \notin DOMAIN regionsDict

\* C14: insertGame, insertBan and insertPick reject a record whose region
\* (split present) or event name (split absent) is in neither enumerated set
\* with an error and write no row for it: alone it leaves every table as it
\* was, and after another record it leaves the tables as that record did.
C14_UnknownRejected ==
    \A g \in Records \cup {RecUnknownRegion, RecUnknownEvent} :
        UnknownName(g) =>
            LET a == insertGame(Db, <<g>>)
                b == insertBan(Db, <<g>>)
                c == insertPick(Db, <<g>>)
            IN  /\ a.exc # NoExc /\ a.db = Db
                /\ b.exc # NoExc /\ b.db = Db
                /\ c.exc # NoExc /\ c.db = Db
                /\ \A h \in Records :
                      LET ha == insertGame(Db, <<h, g>>)
                          hb == insertBan(Db, <<h, g>>)
                          hc == insertPick(Db, <<h, g>>)
                      IN  /\ ha.exc # NoExc /\ ha.db = insertGame(Db, <<h>>).db
                          /\ hb.exc # NoExc /\ hb.db = insertBan(Db, <<h>>).db
                          /\ hc.exc # NoExc /\ hc.db = insertPick(Db, <<h>>).db

\* A call of insertGame inserted a game and then ended with the KeyError of a
\* record whose region is no key of regionsDict.
C14_Witness ==
    /\ last.op = "insertGame"
    /\ last.exc = "KeyError"
    /\ last.added.game = 1
    /\ \E g \in Records : UnknownName(g)

\* The rows written for the entries e that have a null champion_id are rows
\* of "none" entries.
NullOnlyForNone(rows, e) ==
    \A i \in 1..Len(rows) :
        (i <= Len(e) /\ rows[i].champion_id = NullId) => e[i].name = "none"

\* The rows written for the entries e that have a null champion_id are rows
\* of "none" entries or of entries whose name is unresolved.
NullOnlyForNoneOrUnresolved(rows, e) ==
    \A i \in 1..Len(rows) :
        (i <= Len(e) /\ rows[i].champion_id = NullId) =>
            (e[i].name = "none" \/ Unresolved(e[i].name))

\* C15 as stated: a ban or pick row has a null champion_id only if the entry
\* it was written for is "none"; the row of a named entry never has one.
C15_NullOnlyForNone ==
    /\ \A g \in Records :
          /\ NullOnlyForNone(NewRows(ban, insertBan(Db, <<g>>).db.ban), BanEntries(g))
          /\ NullOnlyForNone(NewRows(pick, insertPick(Db, <<g>>).db.pick), PickEntries(g))
    /\ \A gid \in 1..Len(game) :
          /\ \E g \in Records :
                /\ LookupGame(game, g) = gid
                /\ RowsFollow(RowsOf(ban, gid), BanEntries(g), gid)
                /\ NullOnlyForNone(RowsOf(ban, gid), BanEntries(g))
          /\ \E g \in Records :
                /\ LookupGame(game, g) = gid
                /\ RowsFollow(RowsOf(pick, gid), PickEntries(g), gid)
                /\ NullOnlyForNone(RowsOf(pick, gid), PickEntries(g))

\* C15 amended: a ban or pick row has a null champion_id only if the entry it
\* was written for is "none" or names a champion found neither directly nor
\* through its alias; the row of an entry whose name is found, directly or
\* through its alias, never has a null champion_id.
C15_NullOnlyForNoneOrUnresolved ==
    /\ \A g \in Records :
          /\ NullOnlyForNoneOrUnresolved(NewRows(ban, insertBan(Db, <<g>>).db.ban),
                                         BanEntries(g))
          /\ NullOnlyForNoneOrUnresolved(NewRows(pick, insertPick(Db, <<g>>).db.pick),
                                         PickEntries(g))
    /\ \A gid \in 1..Len(game) :
          /\ \E g \in Records :
                /\ LookupGame(game, g) = gid
                /\ RowsFollow(RowsOf(ban, gid), BanEntries(g), gid)
                /\ NullOnlyForNoneOrUnresolved(RowsOf(ban, gid), BanEntries(g))
          /\ \E g \in Records :
                /\ LookupGame(game, g) = gid
                /\ RowsFollow(RowsOf(pick, gid), PickEntries(g), gid)
                /\ NullOnlyForNoneOrUnresolved(RowsOf(pick, gid), PickEntries(g))

\* A call of insertBan wrote the row of the blue ban "Retired", first of its
\* side, with a null champion_id.
C15_Witness ==
    /\ last.op = "insertBan"
    /\ last.added.ban > 0
    /\ \E i \in 1..Len(ban) :
          /\ ban[i].champion_id = NullId
          /\ ban[i].side_id = 0
          /\ ban[i].selection_order = 1

\* Table a is the beginning of table b: every row of a is in b, at its place
\* and with its values.
IsPrefix(a, b) == Len(a) <= Len(b) /\ SubSeq(b, 1, Len(a)) = a

\* C16: every call only adds rows: the rows of team, game, ban and pick that
\* are there before a call are there after it, unchanged and at their ids (a
\* team keeps the region of its first insertion), and getMatchData and
\* getGameIdsByTournament change no table.
C16_OnlyAdds ==
    [][/\ IsPrefix(team, team')
       /\ IsPrefix(game, game')
       /\ IsPrefix(ban, ban')
       /\ IsPrefix(pick, pick')
       /\ last'.op \in {"getMatchData", "getGameIdsByTournament"} =>
             (team' = team /\ game' = game /\ ban' = ban /\ pick' = pick)]_vars

\* insertTeam inserted SKT from a record without split, which names G2 too:
\* G2, inserted before from a record of Europe, still has region EU.
C16_Witness ==
    /\ last.op = "insertTeam"
    /\ \E i, j \in 1..Len(team) :
          /\ i < j
          /\ team[i].display_name = "G2"
          /\ team[i].region = <<"EU">>
          /\ team[j].display_name = "SKT"
          /\ team[j].region = None

\* The first entry of e is there and resolving it does not raise.
FirstEntryWritable(e) == Len(e) > 0 /\ resolveChampion(e[1].name).exc = NoExc

\* C17: when the ban (pick) table holds a row with the id of the record's
\* game, insertBan (insertPick) returns without writing, whatever the ban
\* (pick) lists of the record and however few or different the rows stored;
\* nothing but a row of that game in that table makes it skip: with none
\* there it writes, whatever the other table holds.
C17_SkipOnAnyRow ==
    \A g \in Records :
        LET gid == LookupGame(game, g)
            a == insertBan(Db, <<g>>)
            b == insertPick(Db, <<g>>)
        IN  gid # NullId =>
            /\ HasRowsFor(ban, gid) => (a.exc = NoExc /\ a.db = Db)
            /\ HasRowsFor(pick, gid) => (b.exc = NoExc /\ b.db = Db)
            /\ (~HasRowsFor(ban, gid) /\ FirstEntryWritable(BanEntries(g))) =>
                  (Len(a.db.ban) > Len(ban) /\ a.db.ban[Len(ban) + 1].game_id = gid)
            /\ (~HasRowsFor(pick, gid) /\ FirstEntryWritable(PickEntries(g))) =>
                  (Len(b.db.pick) > Len(pick) /\ b.db.pick[Len(pick) + 1].game_id = gid)

\* The one game in the table has a single ban row, fewer than any record has
\* ban entries, and a call of insertBan returned without writing.
C17_Witness ==
    /\ last.op = "insertBan"
    /\ last.exc = NoExc
    /\ last.added.ban = 0
    /\ Len(game) = 1
    /\ Len(ban) = 1
    /\ \A g \in Records : Len(BanEntries(g)) > 1

\* No two rows of the table have the same (game_id, side_id, selection_order).
DraftKeyUnique(table) ==
    \A i, j \in 1..Len(table) :
        (/\ table[i].game_id = table[j].game_id
         /\ table[i].side_id = table[j].side_id
         /\ table[i].selection_order = table[j].selection_order) => i = j

\* C18: no two ban rows have the same (game_id, side_id, selection_order), and
\* no two pick rows have.
C18_DraftKeyUnique == DraftKeyUnique(ban) /\ DraftKeyUnique(pick)

\* The bans of two games are in the table, both with a first ban on either
\* side, and a call of insertBan for games written before returned.
C18_Witness ==
    /\ last.op = "insertBan"
    /\ last.exc = NoExc
    /\ last.added.ban = 0
    /\ \E i, j \in 1..Len(ban) :
          /\ ban[i].game_id # ban[j].game_id
          /\ ban[i].side_id = ban[j].side_id
          /\ ban[i].selection_order = ban[j].selection_order

\* The display names in a team table.
TeamNames(teamT) == {teamT[i].display_name : i \in 1..Len(teamT)}

\* The record has no split, or its region is a key of regionsDict: lines
\* 181-184 yield a region for it.
HasTeamRegion(g) == g.split = None \/ g.region \in DOMAIN regionsDict

\* The region a team first seen in record g is to be inserted with.
RegionFor(g) == IF g.split = None THEN None ELSE regionsDict[g.region]

\* C19: insertTeam leaves the teams that are present as they are; every team
\* it inserts is one the list names and was not present, is inserted once,
\* and has the region of the first record of the list that names it: null
\* exactly when that record's split is absent, else the abbreviation of its
\* region in regionsDict; blue and red of a record are handled together, so
\* that after a call that returns every team of every record is present.
C19_TeamRegion ==
    \A g1, g2 \in Records :
        LET a == insertTeam(Db, <<g1, g2>>)
            new == NewRows(team, a.db.team)
            first(name) == IF name \in {g1.blue_team, g1.red_team} THEN g1 ELSE g2
        IN  /\ IsPrefix(team, a.db.team)
            /\ TeamNames(new) \subseteq
                  {g1.blue_team, g1.red_team, g2.blue_team, g2.red_team} \ TeamNames(team)
            /\ Len(new) = Cardinality(TeamNames(new))
            /\ \A k \in 1..Len(new) :
                  /\ HasTeamRegion(first(new[k].display_name))
                  /\ new[k].region = RegionFor(first(new[k].display_name))
                  /\ (new[k].region = None)
                        <=> (first(new[k].display_name).split = None)
            /\ HasTeamRegion(g1) => {g1.blue_team, g1.red_team} \subseteq TeamNames(a.db.team)
            /\ a.exc = NoExc <=> (HasTeamRegion(g1) /\ HasTeamRegion(g2))
            /\ a.exc = NoExc =>
                  {g1.blue_team, g1.red_team, g2.blue_team, g2.red_team}
                      \subseteq TeamNames(a.db.team)

\* One call of insertTeam on the empty table inserted G2 and FNC with region
\* EU and then SKT, of a record without split, with no region.
C19_Witness ==
    /\ last.op = "insertTeam"
    /\ last.exc = NoExc
    /\ last.added.team = 3
    /\ Len(team) = 3
    /\ team[1] = [region |-> <<"EU">>, display_name |-> "G2"]
    /\ team[2] = [region |-> <<"EU">>, display_name |-> "FNC"]
    /\ team[3] = [region |-> None, display_name |-> "SKT"]

\* The rows a call wrote for record g carry the id of a game row whose
\* (tournament, tourn_game_id) is the record's.
RowsOfRecordsGame(rows, gameT, g) ==
    \A k \in 1..Len(rows) :
        /\ rows[k].game_id \in 1..Len(gameT)
        /\ getTournamentData(g).exc = NoExc
        /\ gameT[rows[k].game_id].tournament = getTournamentData(g).val
        /\ gameT[rows[k].game_id].tourn_game_id = g.tourn_game_id

\* C20: the blue and red team ids of every game row are ids of rows of team,
\* never null; the game_id of every ban and pick row is the id of a row of
\* game, and the rows insertBan and insertPick write for a record carry the id
\* of the game row with the record's (tournament, tourn_game_id).
C20_ReferentialIntegrity ==
    /\ \A i \in 1..Len(game) :
          /\ game[i].blue_teamid \in 1..Len(team)
          /\ game[i].red_teamid \in 1..Len(team)
    /\ \A i \in 1..Len(ban) : ban[i].game_id \in 1..Len(game)
    /\ \A i \in 1..Len(pick) : pick[i].game_id \in 1..Len(game)
    /\ \A g \in Records :
          LET a == insertBan(Db, <<g>>)
              b == insertPick(Db, <<g>>)
          IN  /\ RowsOfRecordsGame(NewRows(ban, a.db.ban), a.db.game, g)
              /\ RowsOfRecordsGame(NewRows(pick, b.db.pick), b.db.game, g)

\* Two games are in the table, bans are, and a call of insertPick wrote picks.
C20_Witness ==
    /\ last.op = "insertPick"
    /\ last.added.pick > 0
    /\ Len(game) = 2
    /\ Len(ban) > 0

====
